---- MODULE Spec2Model ----
(***************************************************************************)
(* Model of the asynchronous logger of asp3cto/task-manager                *)
(* (internal/logger/async.go) together with its callers.                   *)
(*                                                                         *)
(* The logger is a buffered Go channel `ch` of LogEntry, any number of     *)
(* producers calling log() (through Debug/Info/Warn/Error), one worker     *)
(* goroutine per Start() call, and Close().  Channel and select semantics  *)
(* follow the Go runtime: a select first polls its cases and picks any     *)
(* one that can proceed; if none can, the goroutine parks on every case    *)
(* and the FIRST event that fires (a receive freeing a slot, a send, a     *)
(* close of the channel, a cancellation) decides which case it resumes     *)
(* with.  A send on a closed channel panics; a receive from a closed and   *)
(* empty channel yields the zero LogEntry.                                 *)
(***************************************************************************)
EXTENDS Integers, Sequences, FiniteSets, TLC

\* ---- bounds ----
NumProducers == 2        \* concurrent callers of the emission API
MaxEntries == 2          \* emission calls made in one behaviour
MaxBufSize == 2          \* largest channel capacity tried
MaxWorkers == 2          \* worker slots (one per Start call)
MaxJunk == 1             \* zero-value lines kept in the recorded sink
NumCallers == 2          \* concurrent callers of the task service
MaxStrLen == 2           \* characters in a LOG_BUFFER_SIZE value
MaxAttrs == 2            \* attributes of one entry
MaxAddrs == 3            \* Task objects alive at the same time

\* ---- slog levels (log/slog: Debug=-4, Info=0, Warn=4, Error=8) ----
LevelDebug == 0 - 4
LevelInfo == 0
LevelWarn == 4
LevelError == 8
Levels == {LevelDebug, LevelInfo, LevelWarn, LevelError}

\* The minimum levels a logger is constructed with: INFO, the default of
\* getLogLevel, under which the zero LogEntry passes the level check, and
\* WARN, under which it does not.
MinLevels == {LevelInfo, LevelWarn}

Producers == 1..NumProducers
Workers == 1..MaxWorkers

\* The zero value of LogEntry: Level 0 (INFO), empty message, zero time.
\* Entry ids stand for the (message, time, attrs) of an emitted entry;
\* id 0 is the entry nobody emitted.
ZeroEntry == [id |-> 0, level |-> LevelInfo]

VARIABLES
    minLevel,     \* l.level
    capacity,     \* cap(l.ch)
    buf,          \* buffered content of l.ch, oldest first
    closed,       \* l.ch has been closed
    sendq,        \* producers parked in select on l.ch, in arrival order
    recvq,        \* workers parked receiving from l.ch, in arrival order
    ctxDone,      \* the context passed to Start is cancelled
    wg,           \* l.wg counter
    wpc,          \* per worker: position in worker()
    held,         \* per worker: the entry received and not yet written
    ppc,          \* per producer: position in log()
    pent,         \* per producer: the entry of the call in progress
    pctx,         \* per producer: the call's context is cancelled
    closePc,      \* position of the (single) Close() call
    nextId,       \* id of the next emission call
    sink,         \* lines written to l.output, in order
    accepted,     \* history: ids in the order the channel accepted them
    filtered,     \* history: ids of calls below the minimum level
    abandoned,    \* history: ids whose context was cancelled while parked
    lost,         \* history: ids whose serialization or sink write failed
    shutdownPc,   \* main: where it is with server.Shutdown
    hActive,      \* per producer: an HTTP request handler is running
    envBufSize,   \* the environment variable LOG_BUFFER_SIZE
    envLogLevel,  \* the environment variable LOG_LEVEL
    cfgPc,        \* NewFromEnv: "start", then "constructed" or "panicked"
    entryIn,      \* writeEntry: the entry being formatted
    lineOut,      \* writeEntry: the JSON object produced for entryIn
    tasks,        \* MemoryTaskRepository.tasks: id -> stored task
    cpc,          \* per service caller: position in the service call
    carg,         \* per service caller: arguments of the call in progress
    ctask,        \* per service caller: the task copy the call works on
    cres,         \* the result of the service call that returned last
    heap,         \* the Task objects in memory: address -> Task
    store,        \* MemoryTaskRepository.tasks as pointers: id -> address
    got,          \* addresses a client received from GetByID or GetAll
    own           \* addresses a client made itself or gave to the repository

vars == <<minLevel, capacity, buf, closed, sendq, recvq, ctxDone, wg, wpc,
          held, ppc, pent, pctx, closePc, nextId, sink, accepted, filtered,
          abandoned, lost, shutdownPc, hActive, envBufSize, envLogLevel,
          cfgPc, entryIn, lineOut, tasks, cpc, carg, ctask, cres, heap,
          store, got, own>>

config == <<minLevel, capacity>>
chanVars == <<buf, closed, sendq, recvq>>
workerVars == <<wpc, held, wg>>
prodVars == <<ppc, pent, pctx>>
histVars == <<accepted, filtered, abandoned>>
srvVars == <<shutdownPc, hActive>>
envVars == <<envBufSize, envLogLevel, cfgPc>>
fmtVars == <<entryIn, lineOut>>
taskVars == <<tasks, cpc, carg, ctask, cres>>
ptrVars == <<heap, store, got, own>>

\* What the goroutines of the logger never touch.
appVars == <<lost, srvVars, envVars, fmtVars, taskVars, ptrVars>>

\* ---- helpers on sequences ----
Range(s) == {s[i] : i \in 1..Len(s)}

Remove(s, x) == SelectSeq(s, LAMBDA y : y # x)

Ids(s) == {s[i].id : i \in 1..Len(s)}

\* ---- the rest of the program, at rest ----
Callers == 1..NumCallers

\* No HTTP request is being served and server.Shutdown was not called.
SrvIdle ==
    /\ shutdownPc = "idle"
    /\ hActive = [p \in Producers |-> FALSE]

\* An environment variable that is not set; os.Getenv gives "" for it.
\* LOG_BUFFER_SIZE is held as a sequence of characters, LOG_LEVEL as a
\* string.
UnsetBufSize == [set |-> FALSE, val |-> <<>>]

UnsetLogLevel == [set |-> FALSE, val |-> ""]

\* The logger has been constructed by New.
EnvIdle ==
    /\ envBufSize = UnsetBufSize
    /\ envLogLevel = UnsetLogLevel
    /\ cfgPc = "constructed"

\* A JSON object: a function from its keys to their values.
EmptyObj == [k \in {} |-> ""]

NoEntryIn ==
    [level |-> LevelInfo, msg |-> "", time |-> [sec |-> 0, nsec |-> 0],
     attrs |-> <<>>]

\* writeEntry has not been called.
NoLine == [called |-> FALSE, written |-> FALSE, obj |-> EmptyObj]

FmtIdle ==
    /\ entryIn = NoEntryIn
    /\ lineOut = NoLine

\* An error value is its chain of wrapped errors, outermost first; nil is
\* the empty chain.
NilError == <<>>

NoTask == [id |-> "", title |-> <<>>, status |-> ""]

NoArg == [op |-> "none", id |-> "", status |-> ""]

\* A result: the call it answers, the ID and title the call was about,
\* its error, and a bit that tells two equal results in a row apart.
NoResult ==
    [op |-> "none", id |-> "", title |-> <<>>, err |-> NilError, seq |-> 0]

\* NewMemoryTaskRepository (memory.go:26-30): an empty map; no service
\* call is in progress.
TaskIdle ==
    /\ tasks = [i \in {} |-> NoTask]
    /\ cpc = [c \in Callers |-> "idle"]
    /\ carg = [c \in Callers |-> NoArg]
    /\ ctask = [c \in Callers |-> NoTask]
    /\ cres = NoResult

\* No Task object exists and the repository's map is empty.
Addrs == 1..MaxAddrs

PtrIdle ==
    /\ heap = [a \in Addrs |-> NoTask]
    /\ store = [i \in {} |-> 0]
    /\ got = {}
    /\ own = {}

\* The logger as New leaves it, whatever level and capacity it got.
LoggerIdle ==
    /\ buf = <<>>
    /\ closed = FALSE
    /\ sendq = <<>>
    /\ recvq = <<>>
    /\ ctxDone = FALSE
    /\ wg = 0
    /\ wpc = [w \in Workers |-> "none"]
    /\ held = [w \in Workers |-> ZeroEntry]
    /\ ppc = [p \in Producers |-> "idle"]
    /\ pent = [p \in Producers |-> ZeroEntry]
    /\ pctx = [p \in Producers |-> FALSE]
    /\ closePc = "idle"
    /\ nextId = 1
    /\ sink = <<>>
    /\ accepted = <<>>
    /\ filtered = {}
    /\ abandoned = {}
    /\ lost = {}

\* ---- New (async.go:56-68) ----
\* The channel is created empty with the given capacity; no worker runs.
Init ==
    /\ minLevel \in MinLevels
    /\ capacity \in 1..MaxBufSize
    /\ LoggerIdle
    /\ SrvIdle
    /\ EnvIdle
    /\ FmtIdle
    /\ TaskIdle
    /\ PtrIdle

\* ---- Start (async.go:71-74) ----
Started == {w \in Workers : wpc[w] # "none"}

Start ==
    /\ \E w \in Workers :
        /\ wpc[w] = "none"
        /\ \A v \in Workers : v < w => wpc[v] # "none"
        /\ wpc' = [wpc EXCEPT ![w] = "select"]
    /\ wg' = wg + 1
    /\ UNCHANGED <<config, appVars, chanVars, ctxDone, held, prodVars, closePc,
                   nextId, sink, histVars>>


\* ---- the channel l.ch (async.go:37, 62) ----
\* A channel that never reports itself full.
ChanFullNever == FALSE

\* len(l.ch) == cap(l.ch): a send cannot proceed by buffering.
ChanFull == Len(buf) >= capacity

\* A stack instead of a queue: the newest entry is taken first.
ChanTakeNewest(q) == <<q[Len(q)], SubSeq(q, 1, Len(q) - 1)>>

\* A receive from a non-empty buffer: the pair of the value taken (the
\* oldest one) and what is left in the buffer.
ChanTake(q) == <<Head(q), Tail(q)>>

\* A receive can proceed: something is buffered, or the channel is closed
\* (producers park only on a full buffer, so a parked producer implies a
\* non-empty buffer).
RecvReady == Len(buf) > 0 \/ closed

\* `entry := <-l.ch` by worker w when RecvReady holds (async.go:84, 88).
\* From a non-empty buffer it takes the oldest entry; the first parked
\* producer, if any, puts its entry in the freed slot and resumes with its
\* send case.  From a closed, empty channel it yields the zero LogEntry.
ChanRecv(w, pcAfter) ==
    /\ RecvReady
    /\ wpc' = [wpc EXCEPT ![w] = pcAfter]
    /\ IF Len(buf) > 0
       THEN /\ held' = [held EXCEPT ![w] = ChanTake(buf)[1]]
            /\ IF sendq # <<>>
               THEN /\ buf' = Append(ChanTake(buf)[2], pent[Head(sendq)])
                    /\ sendq' = Tail(sendq)
                    /\ ppc' = [ppc EXCEPT ![Head(sendq)] = "resumed"]
                    /\ accepted' = Append(accepted, pent[Head(sendq)].id)
               ELSE /\ buf' = ChanTake(buf)[2]
                    /\ UNCHANGED <<sendq, ppc, accepted>>
       ELSE /\ held' = [held EXCEPT ![w] = ZeroEntry]
            /\ UNCHANGED <<buf, sendq, ppc, accepted>>
    /\ UNCHANGED <<config, appVars, closed, recvq, ctxDone, wg, pent, pctx, closePc,
                   nextId, sink, filtered, abandoned>>

\* ---- log (async.go:126-143) ----
\* log without its level check.
LogFilteredNever(level) == FALSE

\* `if level < l.level { return }` in log.
LogFiltered(level) == level < minLevel

\* A call of Debug/Info/Warn/Error (async.go:146-163) by producer p with
\* a context that is already done or not.  A call below the minimum level
\* returns at once; any other builds its entry and enters the select.
LogCallBy(p, level, done) ==
    /\ ppc[p] = "idle"
    /\ nextId <= MaxEntries
    /\ nextId' = nextId + 1
    /\ filtered' = IF level < minLevel THEN filtered \cup {nextId}
                                       ELSE filtered
    /\ IF LogFiltered(level)
       THEN UNCHANGED prodVars
       ELSE /\ pent' = [pent EXCEPT ![p] = [id |-> nextId, level |-> level]]
            /\ pctx' = [pctx EXCEPT ![p] = done]
            /\ ppc' = [ppc EXCEPT ![p] = "select"]
    /\ UNCHANGED <<config, appVars, chanVars, ctxDone, workerVars, closePc, sink,
                   accepted, abandoned>>

\* Calling goroutines are interchangeable: the call takes the first free
\* producer slot.
LogCall(p, level, done) ==
    /\ \A q \in Producers : q < p => ppc[q] # "idle"
    /\ LogCallBy(p, level, done)

\* The send case of log's select can proceed: the channel is closed (the
\* send panics), a receiver is parked, or the buffer has a free slot.
SendReady == closed \/ recvq # <<>> \/ ~ChanFull

\* The Done case of log's select can proceed.
DoneReady(p) == pctx[p]

\* `case l.ch <- entry:` chosen (async.go:139).
SendCase(p) ==
    /\ SendReady
    /\ IF closed
       THEN /\ ppc' = [ppc EXCEPT ![p] = "panicked"]
            /\ UNCHANGED <<buf, recvq, wpc, held, accepted>>
       ELSE /\ ppc' = [ppc EXCEPT ![p] = "idle"]
            /\ accepted' = Append(accepted, pent[p].id)
            /\ IF recvq # <<>>
               THEN /\ held' = [held EXCEPT ![Head(recvq)] = pent[p]]
                    /\ wpc' = [wpc EXCEPT ![Head(recvq)] =
                                 IF wpc[Head(recvq)] = "parked"
                                 THEN "write" ELSE "drain_write"]
                    /\ recvq' = Tail(recvq)
                    /\ UNCHANGED buf
               ELSE /\ buf' = Append(buf, pent[p])
                    /\ UNCHANGED <<recvq, wpc, held>>
    /\ pent' = [pent EXCEPT ![p] = ZeroEntry]
    /\ pctx' = [pctx EXCEPT ![p] = FALSE]
    /\ UNCHANGED sendq

\* `case <-ctx.Done(): return` chosen (async.go:140-141).
DoneCase(p) ==
    /\ DoneReady(p)
    /\ ppc' = [ppc EXCEPT ![p] = "idle"]
    /\ pent' = [pent EXCEPT ![p] = ZeroEntry]
    /\ pctx' = [pctx EXCEPT ![p] = FALSE]
    /\ UNCHANGED <<buf, sendq, recvq, wpc, held, accepted>>

\* No case can proceed: the producer parks on both channels.
ParkCase(p) ==
    /\ ~SendReady
    /\ ~DoneReady(p)
    /\ ppc' = [ppc EXCEPT ![p] = "parked"]
    /\ sendq' = Append(sendq, p)
    /\ UNCHANGED <<buf, recvq, wpc, held, accepted, pent, pctx>>

\* The select of log (async.go:138-142): any case that can proceed is
\* chosen; when both can, the choice is the runtime's.
ProducerSelect(p) ==
    /\ ppc[p] = "select"
    /\ SendCase(p) \/ DoneCase(p) \/ ParkCase(p)
    /\ UNCHANGED <<config, appVars, closed, ctxDone, wg, closePc, nextId, sink,
                   filtered, abandoned>>

\* A producer woken out of the select returns from log: either its entry
\* was taken into the buffer or its context was cancelled.
ProducerResume(p) ==
    /\ ppc[p] = "resumed"
    /\ ppc' = [ppc EXCEPT ![p] = "idle"]
    /\ pent' = [pent EXCEPT ![p] = ZeroEntry]
    /\ pctx' = [pctx EXCEPT ![p] = FALSE]
    /\ UNCHANGED <<config, appVars, chanVars, ctxDone, workerVars, closePc, nextId,
                   sink, histVars>>

\* A producer that looks at ctx.Done() only before it blocks on the send.
WaitsOnDoneNever(p) == FALSE

\* A parked producer is registered on ctx.Done() as well as on l.ch.
WaitsOnDone(p) == ppc[p] = "parked"

\* The context of a call parked in the select is cancelled by its owner
\* (the HTTP server cancels r.Context() when the client goes away): the
\* producer resumes with the Done case and never sends.  (A cancellation
\* before the select polls is the `done` input of LogCall.)
CancelCaller(p) ==
    /\ ppc[p] = "parked"
    /\ ~pctx[p]
    /\ pctx' = [pctx EXCEPT ![p] = TRUE]
    /\ abandoned' = abandoned \cup {pent[p].id}
    /\ IF WaitsOnDone(p)
       THEN /\ ppc' = [ppc EXCEPT ![p] = "resumed"]
            /\ sendq' = Remove(sendq, p)
       ELSE UNCHANGED <<ppc, sendq>>
    /\ UNCHANGED <<config, appVars, buf, closed, recvq, ctxDone, workerVars, pent,
                   closePc, nextId, sink, accepted, filtered>>


\* ---- writeEntry (async.go:100-122) ----
\* `if entry.Level < l.level { return }` in writeEntry.
WriteFiltered(e) == e.level < minLevel

\* The line written for an entry: its level and, through the id, its
\* message, time and attributes.
Line(e) == [id |-> e.id, level |-> e.level]

\* `l.output.Write(jsonData)`: the line goes after what was written.
SinkWrite(s, line) == Append(s, line)

JunkCount(s) == Cardinality({i \in 1..Len(s) : s[i].id = 0})

\* writeEntry as a function of the sink content.  Only the first MaxJunk
\* lines of the zero entry are recorded, to keep the recorded sink finite.
WriteEntry(s, e) ==
    IF WriteFiltered(e) THEN s
    ELSE IF e.id = 0 /\ JunkCount(s) >= MaxJunk THEN s
    ELSE SinkWrite(s, Line(e))

\* ---- worker (async.go:79-95) ----
\* The select of the worker loop (async.go:83-86): receive when the channel
\* can deliver, take the Done case when the Start context is cancelled,
\* any of the two when both can proceed, park when neither can.
WorkerDoneCase(w) ==
    /\ wpc[w] = "select"
    /\ ctxDone
    /\ wpc' = [wpc EXCEPT ![w] = "drain_check"]
    /\ UNCHANGED <<config, appVars, chanVars, ctxDone, wg, held, prodVars, closePc,
                   nextId, sink, histVars>>

WorkerSelect(w) ==
    /\ wpc[w] = "select"
    /\ \/ ChanRecv(w, "write")
       \/ WorkerDoneCase(w)
       \/ /\ ~RecvReady
          /\ ~ctxDone
          /\ wpc' = [wpc EXCEPT ![w] = "parked"]
          /\ recvq' = Append(recvq, w)
          /\ UNCHANGED <<config, appVars, buf, closed, sendq, ctxDone, wg, held,
                         prodVars, closePc, nextId, sink, histVars>>

\* `l.writeEntry(entry)` (async.go:85, 89), then back to the loop head.
WorkerWrite(w) ==
    /\ wpc[w] \in {"write", "drain_write"}
    /\ sink' = WriteEntry(sink, held[w])
    /\ held' = [held EXCEPT ![w] = ZeroEntry]
    /\ wpc' = [wpc EXCEPT ![w] = IF wpc[w] = "write" THEN "select"
                                                    ELSE "drain_check"]
    /\ UNCHANGED <<config, appVars, chanVars, ctxDone, wg, prodVars, closePc, nextId,
                   histVars>>

\* `for len(l.ch) > 0` (async.go:87); when it fails the worker returns and
\* the deferred l.wg.Done() runs (async.go:80, 92).
DrainMoreAlways == TRUE

DrainMore == Len(buf) > 0

WorkerDrainCheck(w) ==
    /\ wpc[w] = "drain_check"
    /\ IF DrainMore
       THEN /\ wpc' = [wpc EXCEPT ![w] = "drain_recv"]
            /\ UNCHANGED wg
       ELSE /\ wpc' = [wpc EXCEPT ![w] = "done"]
            /\ wg' = wg - 1
    /\ UNCHANGED <<config, appVars, chanVars, ctxDone, held, prodVars, closePc,
                   nextId, sink, histVars>>

\* `entry := <-l.ch` in the drain loop (async.go:88): a plain receive,
\* which parks when the buffer has been emptied since the len check.
WorkerDrainRecv(w) ==
    /\ wpc[w] = "drain_recv"
    /\ IF RecvReady
       THEN ChanRecv(w, "drain_write")
       ELSE /\ wpc' = [wpc EXCEPT ![w] = "drain_parked"]
            /\ recvq' = Append(recvq, w)
            /\ UNCHANGED <<config, appVars, buf, closed, sendq, ctxDone, wg, held,
                           prodVars, closePc, nextId, sink, histVars>>

\* ---- cancellation of the context passed to Start (main.go:24, 46) ----
\* Workers parked in the select resume with the Done case.
Signal ==
    /\ ~ctxDone
    /\ ctxDone' = TRUE
    /\ wpc' = [w \in Workers |-> IF wpc[w] = "parked" THEN "drain_check"
                                                      ELSE wpc[w]]
    /\ recvq' = SelectSeq(recvq, LAMBDA w : wpc[w] # "parked")
    /\ UNCHANGED <<config, appVars, buf, closed, sendq, wg, held, prodVars, closePc,
                   nextId, sink, histVars>>

\* ---- Close (async.go:166-169) ----
\* `close(l.ch)`: parked producers resume into a panic (send on closed
\* channel), parked workers resume with the zero entry.
CloseChan ==
    /\ closePc = "idle"
    /\ closed' = TRUE
    /\ ppc' = [p \in Producers |-> IF p \in Range(sendq) THEN "panicked"
                                                         ELSE ppc[p]]
    /\ sendq' = <<>>
    /\ wpc' = [w \in Workers |->
                 IF w \notin Range(recvq) THEN wpc[w]
                 ELSE IF wpc[w] = "parked" THEN "write" ELSE "drain_write"]
    /\ held' = [w \in Workers |-> IF w \in Range(recvq) THEN ZeroEntry
                                                        ELSE held[w]]
    /\ recvq' = <<>>
    /\ closePc' = "waiting"
    /\ UNCHANGED <<config, appVars, buf, ctxDone, wg, pent, pctx, nextId, sink,
                   histVars>>

\* `l.wg.Wait()` returns once the counter is zero.
CloseReturn ==
    /\ closePc = "waiting"
    /\ wg = 0
    /\ closePc' = "returned"
    /\ UNCHANGED <<config, appVars, chanVars, ctxDone, workerVars, prodVars, nextId,
                   sink, histVars>>

\* ---- the program: main.go:32-59 ----
\* The logger is started once, emission calls are made by the handlers
\* and the service after Start and until Close has returned, and Close is
\* called once.
Next ==
    \/ (Started = {} /\ Start)
    \/ \E p \in Producers, level \in Levels, done \in BOOLEAN :
          Started # {} /\ closePc # "returned" /\ LogCall(p, level, done)
    \/ \E p \in Producers : ProducerSelect(p)
    \/ \E p \in Producers : ProducerResume(p)
    \/ \E p \in Producers : CancelCaller(p)
    \/ \E w \in Workers : WorkerSelect(w)
    \/ \E w \in Workers : WorkerWrite(w)
    \/ \E w \in Workers : WorkerDrainCheck(w)
    \/ \E w \in Workers : WorkerDrainRecv(w)
    \/ Signal
    \/ (Started # {} /\ CloseChan)
    \/ CloseReturn

Spec == Init /\ [][Next]_vars

\* Goroutines that can run are scheduled; the callers' decisions (to log,
\* to cancel, to signal, to call Close) are not forced.  The runtime picks
\* uniformly among the ready cases of a select, so a worker that keeps
\* coming back to its select with the Start context cancelled does not
\* pick the receive case forever.
Fairness ==
    /\ \A w \in Workers : SF_vars(WorkerDoneCase(w))
    /\ \A p \in Producers : WF_vars(ProducerSelect(p))
    /\ \A p \in Producers : WF_vars(ProducerResume(p))
    /\ \A w \in Workers : WF_vars(WorkerSelect(w))
    /\ \A w \in Workers : WF_vars(WorkerWrite(w))
    /\ \A w \in Workers : WF_vars(WorkerDrainCheck(w))
    /\ \A w \in Workers : WF_vars(WorkerDrainRecv(w))
    /\ WF_vars(CloseReturn)

FairSpec == Spec /\ Fairness

\* ---- the worker's shutdown path (async.go:82-94) ----
\* The same logger with every emission at INFO on an INFO logger and no
\* caller cancelling while it waits: the level filter and the callers'
\* contexts play no part in what the worker does once its own context is
\* cancelled.
InitDrain ==
    /\ Init
    /\ minLevel = LevelInfo

NextDrain ==
    \/ (Started = {} /\ Start)
    \/ \E p \in Producers, done \in BOOLEAN :
          Started # {} /\ closePc # "returned" /\ LogCall(p, LevelInfo, done)
    \/ \E p \in Producers : ProducerSelect(p)
    \/ \E p \in Producers : ProducerResume(p)
    \/ \E w \in Workers : WorkerSelect(w)
    \/ \E w \in Workers : WorkerWrite(w)
    \/ \E w \in Workers : WorkerDrainCheck(w)
    \/ \E w \in Workers : WorkerDrainRecv(w)
    \/ Signal
    \/ (Started # {} /\ CloseChan)
    \/ CloseReturn

DrainSpec == InitDrain /\ [][NextDrain]_vars /\ Fairness

\* ---- the process: main.go:23-60 with the HTTP handlers ----
\* A request arrives while the listener is open (until server.Shutdown is
\* called) and is served by its own goroutine.
RequestBegin(p) ==
    /\ Started # {}
    /\ shutdownPc = "idle"
    /\ ~hActive[p]
    /\ ppc[p] = "idle"
    /\ hActive' = [hActive EXCEPT ![p] = TRUE]
    /\ UNCHANGED <<config, chanVars, ctxDone, workerVars, prodVars, closePc,
                   nextId, sink, histVars, lost, shutdownPc, envVars, fmtVars,
                   taskVars, ptrVars>>

\* h.logger.Info/Debug/Warn/Error(ctx, ...) in a handler or in the service
\* it calls, with ctx = r.Context() (part_001:219-300, part_002:40-163);
\* done says whether the client has already gone away.
HandlerLog(p, level, done) ==
    /\ hActive[p]
    /\ LogCallBy(p, level, done)

\* The handler returns.
RequestEnd(p) ==
    /\ hActive[p]
    /\ ppc[p] = "idle"
    /\ hActive' = [hActive EXCEPT ![p] = FALSE]
    /\ UNCHANGED <<config, chanVars, ctxDone, workerVars, prodVars, closePc,
                   nextId, sink, histVars, lost, shutdownPc, envVars, fmtVars,
                   taskVars, ptrVars>>

\* main passes `<-ctx.Done()` and calls server.Shutdown(shutdownCtx)
\* (main.go:46-53); the listener is closed at once.
ShutdownCall ==
    /\ ctxDone
    /\ shutdownPc = "idle"
    /\ shutdownPc' = "waiting"
    /\ UNCHANGED <<config, chanVars, ctxDone, workerVars, prodVars, closePc,
                   nextId, sink, histVars, lost, hActive, envVars, fmtVars,
                   taskVars, ptrVars>>

\* Shutdown returns nil: no request is being served.
ShutdownIdle ==
    /\ shutdownPc = "waiting"
    /\ \A p \in Producers : ~hActive[p]
    /\ shutdownPc' = "returned"
    /\ UNCHANGED <<config, chanVars, ctxDone, workerVars, prodVars, closePc,
                   nextId, sink, histVars, lost, hActive, envVars, fmtVars,
                   taskVars, ptrVars>>

\* shutdownDelay expires with requests still being served: Shutdown
\* returns the context's error, main logs it and goes on (main.go:53-55).
\* The handlers keep running; their request contexts are not cancelled.
ShutdownTimeout ==
    /\ shutdownPc = "waiting"
    /\ \E p \in Producers : hActive[p]
    /\ shutdownPc' = "returned"
    /\ UNCHANGED <<config, chanVars, ctxDone, workerVars, prodVars, closePc,
                   nextId, sink, histVars, lost, hActive, envVars, fmtVars,
                   taskVars, ptrVars>>

NextMain ==
    \/ (Started = {} /\ Start)
    \/ \E p \in Producers : RequestBegin(p)
    \/ \E p \in Producers, level \in Levels, done \in BOOLEAN :
          HandlerLog(p, level, done)
    \/ \E p \in Producers : RequestEnd(p)
    \/ \E p \in Producers : ProducerSelect(p)
    \/ \E p \in Producers : ProducerResume(p)
    \/ \E p \in Producers : CancelCaller(p)
    \/ \E w \in Workers : WorkerSelect(w)
    \/ \E w \in Workers : WorkerWrite(w)
    \/ \E w \in Workers : WorkerDrainCheck(w)
    \/ \E w \in Workers : WorkerDrainRecv(w)
    \/ Signal
    \/ ShutdownCall
    \/ ShutdownIdle
    \/ ShutdownTimeout
    \/ (shutdownPc = "returned" /\ CloseChan)
    \/ CloseReturn

MainSpec == Init /\ [][NextMain]_vars

\* ---- configuration from the environment (domain/task.go:94-159) ----
defaultBufferSize == 100

Digits == {"0", "1", "2", "3", "4", "5", "6", "7", "8", "9"}

DigitVal(c) ==
    CASE c = "0" -> 0 [] c = "1" -> 1 [] c = "2" -> 2 [] c = "3" -> 3
      [] c = "4" -> 4 [] c = "5" -> 5 [] c = "6" -> 6 [] c = "7" -> 7
      [] c = "8" -> 8 [] c = "9" -> 9

\* The loop of strconv.Atoi over the characters after the sign: a
\* character that is not a digit is a syntax error.
RECURSIVE AtoiDigits(_, _)
AtoiDigits(s, n) ==
    IF s = <<>> THEN [err |-> FALSE, val |-> n]
    ELSE IF Head(s) \notin Digits THEN [err |-> TRUE, val |-> 0]
    ELSE AtoiDigits(Tail(s), n * 10 + DigitVal(Head(s)))

\* strconv.Atoi (called at domain/task.go:126): an optional sign, then at
\* least one digit.  The values here are far below the range of int.
Atoi(s) ==
    IF s = <<>> THEN [err |-> TRUE, val |-> 0]
    ELSE IF Head(s) \in {"-", "+"}
    THEN IF Tail(s) = <<>> THEN [err |-> TRUE, val |-> 0]
         ELSE LET r == AtoiDigits(Tail(s), 0)
              IN  IF Head(s) = "-" THEN [err |-> r.err, val |-> 0 - r.val]
                                   ELSE r
    ELSE AtoiDigits(s, 0)

\* os.Getenv: the value, or the empty string when the variable is unset.
GetenvBufSize == IF envBufSize.set THEN envBufSize.val ELSE <<>>

GetenvLogLevel == IF envLogLevel.set THEN envLogLevel.val ELSE ""

\* getLogBufferSize as its comment describes it: 100 for an invalid value.
GetLogBufferSizeFallback ==
    LET bufSizeStr == GetenvBufSize
        r == Atoi(bufSizeStr)
    IN  IF bufSizeStr = <<>> \/ r.err \/ r.val <= 0
        THEN [panic |-> FALSE, val |-> defaultBufferSize]
        ELSE [panic |-> FALSE, val |-> r.val]

\* getLogBufferSize (domain/task.go:120-132).
GetLogBufferSize ==
    LET bufSizeStr == GetenvBufSize
        r == Atoi(bufSizeStr)
    IN  IF bufSizeStr = <<>>
        THEN [panic |-> FALSE, val |-> defaultBufferSize]
        ELSE IF r.err \/ r.val <= 0
        THEN [panic |-> TRUE, val |-> 0]
        ELSE [panic |-> FALSE, val |-> r.val]

\* getLogLevel with DEBUG as the default.
GetLogLevelDefaultDebug ==
    LET levelStr == GetenvLogLevel
    IN  CASE levelStr = "DEBUG" -> LevelDebug
          [] levelStr = "INFO" -> LevelInfo
          [] levelStr = "WARN" -> LevelWarn
          [] levelStr = "ERROR" -> LevelError
          [] OTHER -> LevelDebug

\* getLogLevel (domain/task.go:145-159).
GetLogLevel ==
    LET levelStr == GetenvLogLevel
    IN  CASE levelStr = "DEBUG" -> LevelDebug
          [] levelStr = "INFO" -> LevelInfo
          [] levelStr = "WARN" -> LevelWarn
          [] levelStr = "ERROR" -> LevelError
          [] OTHER -> LevelInfo

\* NewFromEnv (domain/task.go:107-112): the buffer size is read first; its
\* panic ends the process before any logger exists.
NewFromEnv ==
    /\ cfgPc = "start"
    /\ LET size == GetLogBufferSize
       IN  IF size.panic
           THEN /\ cfgPc' = "panicked"
                /\ UNCHANGED config
           ELSE /\ cfgPc' = "constructed"
                /\ capacity' = size.val
                /\ minLevel' = GetLogLevel
    /\ UNCHANGED <<chanVars, ctxDone, workerVars, prodVars, closePc, nextId,
                   sink, histVars, lost, srvVars, envBufSize, envLogLevel,
                   fmtVars, taskVars, ptrVars>>

\* The values the environment may hold for the two variables.
BufSizeChars == {"-", "+", "0", "1", "a"}

BufSizeStrings ==
    UNION {[1..n -> BufSizeChars] : n \in 0..MaxStrLen}

LogLevelStrings == {"DEBUG", "INFO", "WARN", "ERROR", "debug", ""}

\* The process before main has called NewFromEnv (main.go:32).
InitConfig ==
    /\ envBufSize \in
          {UnsetBufSize} \cup {[set |-> TRUE, val |-> v] : v \in BufSizeStrings}
    /\ envLogLevel \in
          {UnsetLogLevel} \cup
          {[set |-> TRUE, val |-> v] : v \in LogLevelStrings}
    /\ cfgPc = "start"
    /\ minLevel = LevelInfo
    /\ capacity = 0
    /\ LoggerIdle
    /\ SrvIdle
    /\ FmtIdle
    /\ TaskIdle
    /\ PtrIdle

\* main.go:32-44: the logger is built from the environment, and only a
\* logger that was built is started and used.  The run is followed up to
\* the shutdown signal.
NextConfig ==
    \/ NewFromEnv
    \/ (cfgPc = "constructed" /\ Started = {} /\ Start)
    \/ \E p \in Producers, level \in Levels, done \in BOOLEAN :
          cfgPc = "constructed" /\ Started # {} /\ LogCall(p, level, done)
    \/ \E p \in Producers : ProducerSelect(p)
    \/ \E p \in Producers : ProducerResume(p)
    \/ \E p \in Producers : CancelCaller(p)
    \/ \E w \in Workers : WorkerSelect(w)
    \/ \E w \in Workers : WorkerWrite(w)

ConfigSpec == InitConfig /\ [][NextConfig]_vars

\* ---- the line written for an entry (async.go:100-122) ----
\* entry.Time.Format(time.RFC3339): seconds resolution, the fraction of
\* the second is dropped.
FormatRFC3339(t) ==
    CASE t.sec = 0 -> "1970-01-01T00:00:00Z"
      [] t.sec = 1 -> "1970-01-01T00:00:01Z"
      [] t.sec = 2 -> "1970-01-01T00:00:02Z"

\* slog.Level.String for the four levels the logger's methods use.
LevelString(level) ==
    CASE level = LevelDebug -> "DEBUG"
      [] level = LevelInfo -> "INFO"
      [] level = LevelWarn -> "WARN"
      [] level = LevelError -> "ERROR"

\* A map assignment that keeps the value a key already has.
MapPutKeepFirst(m, k, v) ==
    [x \in DOMAIN m \cup {k} |-> IF x \in DOMAIN m THEN m[x] ELSE v]

\* `logData[attr.Key] = attr.Value.Any()` (async.go:112).
MapPut(m, k, v) ==
    [x \in DOMAIN m \cup {k} |-> IF x = k THEN v ELSE m[x]]

\* The map literal of async.go:105-109.
CoreFields(e) ==
    [k \in {"time", "level", "message"} |->
        CASE k = "time" -> FormatRFC3339(e.time)
          [] k = "level" -> LevelString(e.level)
          [] k = "message" -> e.msg]

\* `for _, attr := range entry.Attrs` (async.go:111-113), in list order.
RECURSIVE AddAttrs(_, _)
AddAttrs(m, attrs) ==
    IF attrs = <<>> THEN m
    ELSE AddAttrs(MapPut(m, Head(attrs).Key, Head(attrs).Value), Tail(attrs))

LogData(e) == AddAttrs(CoreFields(e), e.attrs)

\* A value encoding/json has no encoding for (a func or a chan).
Unsupported == "func"

\* json.Marshal(logData) (async.go:115): it fails when a value cannot be
\* encoded; otherwise the object has each key of the map once.
Marshal(m) ==
    IF \E k \in DOMAIN m : m[k] = Unsupported
    THEN [err |-> TRUE, obj |-> EmptyObj]
    ELSE [err |-> FALSE, obj |-> m]

\* writeEntry applied to the entry at hand.
FormatEntry ==
    /\ ~lineOut.called
    /\ lineOut' =
          IF WriteFiltered(entryIn) \/ Marshal(LogData(entryIn)).err
          THEN [called |-> TRUE, written |-> FALSE, obj |-> EmptyObj]
          ELSE [called |-> TRUE, written |-> TRUE,
                obj |-> Marshal(LogData(entryIn)).obj]
    /\ UNCHANGED <<config, chanVars, ctxDone, workerVars, prodVars, closePc,
                   nextId, sink, histVars, lost, srvVars, envVars, entryIn,
                   taskVars, ptrVars>>

\* The entries log can build (async.go:131-136): any of the four levels,
\* the time of the call, and the caller's attributes, whose keys are free.
AttrKeys == {"time", "message", "k"}

AttrValues == {"v", "w", Unsupported}

AttrLists ==
    UNION {[1..n -> [Key : AttrKeys, Value : AttrValues]] : n \in 0..MaxAttrs}

Times == {[sec |-> 1, nsec |-> 0], [sec |-> 1, nsec |-> 7],
          [sec |-> 2, nsec |-> 0]}

EntryInputs ==
    [level : Levels, msg : {"m"}, time : Times, attrs : AttrLists]

InitEntry ==
    /\ minLevel \in MinLevels
    /\ capacity = 1
    /\ entryIn \in EntryInputs
    /\ lineOut = NoLine
    /\ LoggerIdle
    /\ SrvIdle
    /\ EnvIdle
    /\ TaskIdle
    /\ PtrIdle

NextEntry == FormatEntry

EntrySpec == InitEntry /\ [][NextEntry]_vars

\* ---- failing serialization or sink (async.go:115-121) ----
\* A worker that gives up after a failed write.
PcAfterFailExit(w) == "done"

\* writeEntry returns nothing: after a failure the worker is back at the
\* head of the loop it called writeEntry from (async.go:85, 89).
PcAfterFail(w) == IF wpc[w] = "write" THEN "select" ELSE "drain_check"

\* json.Marshal returns an error and writeEntry returns (async.go:115-118),
\* or output.Write fails and its result is discarded (async.go:121).
\* Nothing reaches the sink and the entry is not kept.
WorkerWriteFail(w) ==
    /\ wpc[w] \in {"write", "drain_write"}
    /\ ~WriteFiltered(held[w])
    /\ lost' = lost \cup ({held[w].id} \ {0})
    /\ held' = [held EXCEPT ![w] = ZeroEntry]
    /\ wpc' = [wpc EXCEPT ![w] = PcAfterFail(w)]
    /\ UNCHANGED <<config, chanVars, ctxDone, wg, prodVars, closePc, nextId,
                   sink, histVars, srvVars, envVars, fmtVars, taskVars,
                   ptrVars>>

\* The logger of DrainSpec with a sink or an encoder that may fail on any
\* entry.
NextFault ==
    \/ (Started = {} /\ Start)
    \/ \E p \in Producers, done \in BOOLEAN :
          Started # {} /\ closePc # "returned" /\ LogCall(p, LevelInfo, done)
    \/ \E p \in Producers : ProducerSelect(p)
    \/ \E p \in Producers : ProducerResume(p)
    \/ \E w \in Workers : WorkerSelect(w)
    \/ \E w \in Workers : WorkerWrite(w)
    \/ \E w \in Workers : WorkerWriteFail(w)
    \/ \E w \in Workers : WorkerDrainCheck(w)
    \/ \E w \in Workers : WorkerDrainRecv(w)
    \/ Signal
    \/ (Started # {} /\ CloseChan)
    \/ CloseReturn

FaultSpec == InitDrain /\ [][NextFault]_vars

\* ---- the task service over the in-memory repository ----
\* domain/task.go:11-18.
ErrTaskNotFound == <<"task not found">>

ErrEmptyTitle == <<"title in task cannot be empty">>

ErrTaskExists == <<"task already exists">>

\* fmt.Errorf("msg: %w", err).
Wrap(msg, err) == <<msg>> \o err

\* errors.Is: the target is the error or one it wraps.
Is(err, target) ==
    \E i \in 1..Len(err) : SubSeq(err, i, Len(err)) = target

\* domain/task.go:24-33.
StatusPending == "pending"

StatusInProgress == "in_progress"

StatusCompleted == "completed"

StatusCancelled == "cancelled"

\* The IDs generateID may return (core/service/task.go:108-114) and the
\* IDs callers ask for; titles as sequences of characters; the statuses a
\* caller of UpdateTaskStatus passes, any string being accepted.
TaskIds == {"t1", "t2"}

Titles == {<<>>, <<" ">>, <<"a">>}

StatusArgs == {StatusCompleted, "bogus"}

\* domain.NewTask (domain/task.go:55-65).
NewTask(id, title) == [id |-> id, title |-> title, status |-> StatusPending]

\* Task.UpdateStatus (domain/task.go:69-72).
UpdateStatus(task, status) == [task EXCEPT !.status = status]

\* A Create that replaces the task stored under the ID.
RepoCreateOverwrite(m, task) ==
    [err |-> NilError,
     tasks |-> [i \in DOMAIN m \cup {task.id} |->
                  IF i = task.id THEN task ELSE m[i]]]

\* MemoryTaskRepository.Create (memory.go:34-44).
RepoCreate(m, task) ==
    IF task.id \in DOMAIN m
    THEN [err |-> ErrTaskExists, tasks |-> m]
    ELSE [err |-> NilError,
          tasks |-> [i \in DOMAIN m \cup {task.id} |->
                       IF i = task.id THEN task ELSE m[i]]]

\* MemoryTaskRepository.GetByID (memory.go:49-61): a copy of the task.
RepoGetByID(m, id) ==
    IF id \notin DOMAIN m
    THEN [err |-> ErrTaskNotFound, task |-> NoTask]
    ELSE [err |-> NilError, task |-> m[id]]

\* An Update that stores the task whether or not it exists.
RepoUpdateUpsert(m, task) ==
    [err |-> NilError,
     tasks |-> [i \in DOMAIN m \cup {task.id} |->
                  IF i = task.id THEN task ELSE m[i]]]

\* MemoryTaskRepository.Update (memory.go:84-94).
RepoUpdate(m, task) ==
    IF task.id \notin DOMAIN m
    THEN [err |-> ErrTaskNotFound, tasks |-> m]
    ELSE [err |-> NilError, tasks |-> [m EXCEPT ![task.id] = task]]

\* MemoryTaskRepository.Delete (memory.go:98-108) of a stored task, by
\* another user of the repository.
RepoDelete(id) ==
    /\ id \in DOMAIN tasks
    /\ tasks' = [i \in DOMAIN tasks \ {id} |-> tasks[i]]
    /\ UNCHANGED <<config, chanVars, ctxDone, workerVars, prodVars, closePc,
                   nextId, sink, histVars, lost, srvVars, envVars, fmtVars,
                   cpc, carg, ctask, cres, ptrVars>>

\* The call returns to its caller.
Result(op, id, title, err) ==
    [op |-> op, id |-> id, title |-> title, err |-> err,
     seq |-> 1 - cres.seq]

\* Goroutines calling the service are interchangeable: a call is made by
\* the first caller that is not in one.
FirstIdle(c) ==
    /\ cpc[c] = "idle"
    /\ \A d \in Callers : d < c => cpc[d] # "idle"

\* TaskService.CreateTask (core/service/task.go:36-53); id is what
\* generateID returned.  The repository call is its only shared step.
CreateTask(c, title, id) ==
    /\ FirstIdle(c)
    /\ IF title = <<>>
       THEN /\ cres' = Result("create", id, title, ErrEmptyTitle)
            /\ UNCHANGED tasks
       ELSE LET r == RepoCreate(tasks, NewTask(id, title))
            IN  /\ tasks' = r.tasks
                /\ cres' = Result("create", id, title,
                                  IF r.err # NilError
                                  THEN Wrap("failed to create task", r.err)
                                  ELSE NilError)
    /\ UNCHANGED <<config, chanVars, ctxDone, workerVars, prodVars, closePc,
                   nextId, sink, histVars, lost, srvVars, envVars, fmtVars,
                   cpc, carg, ctask, ptrVars>>

\* TaskService.GetTaskByID (core/service/task.go:57-68).
GetTaskByID(c, id) ==
    /\ FirstIdle(c)
    /\ cres' = Result("get", id, <<>>, RepoGetByID(tasks, id).err)
    /\ UNCHANGED <<config, chanVars, ctxDone, workerVars, prodVars, closePc,
                   nextId, sink, histVars, lost, srvVars, envVars, fmtVars,
                   tasks, cpc, carg, ctask, ptrVars>>

\* UpdateTaskStatus up to task.UpdateStatus (core/service/task.go:84-94):
\* the repository is read; a missing task ends the call, a found one is
\* changed in the caller's copy.
UpdateRead(c, id, status) ==
    /\ FirstIdle(c)
    /\ LET r == RepoGetByID(tasks, id)
       IN  IF r.err # NilError
           THEN /\ cres' = Result("update", id, <<>>, r.err)
                /\ UNCHANGED <<cpc, carg, ctask>>
           ELSE /\ cpc' = [cpc EXCEPT ![c] = "update_write"]
                /\ carg' = [carg EXCEPT ![c] =
                               [op |-> "update", id |-> id, status |-> status]]
                /\ ctask' = [ctask EXCEPT ![c] = UpdateStatus(r.task, status)]
                /\ UNCHANGED cres
    /\ UNCHANGED <<config, chanVars, ctxDone, workerVars, prodVars, closePc,
                   nextId, sink, histVars, lost, srvVars, envVars, fmtVars,
                   tasks, ptrVars>>

\* The rest of UpdateTaskStatus (core/service/task.go:96-100).
UpdateWrite(c) ==
    /\ cpc[c] = "update_write"
    /\ LET r == RepoUpdate(tasks, ctask[c])
       IN  /\ tasks' = r.tasks
           /\ cres' = Result("update", carg[c].id, <<>>,
                             IF r.err # NilError
                             THEN Wrap("failed to update task", r.err)
                             ELSE NilError)
    /\ cpc' = [cpc EXCEPT ![c] = "idle"]
    /\ carg' = [carg EXCEPT ![c] = NoArg]
    /\ ctask' = [ctask EXCEPT ![c] = NoTask]
    /\ UNCHANGED <<config, chanVars, ctxDone, workerVars, prodVars, closePc,
                   nextId, sink, histVars, lost, srvVars, envVars, fmtVars,
                   ptrVars>>

NextTask ==
    \/ \E c \in Callers, title \in Titles, id \in TaskIds :
          CreateTask(c, title, id)
    \/ \E c \in Callers, id \in TaskIds : GetTaskByID(c, id)
    \/ \E c \in Callers, id \in TaskIds, status \in StatusArgs :
          UpdateRead(c, id, status)
    \/ \E c \in Callers : UpdateWrite(c)
    \/ \E id \in TaskIds : RepoDelete(id)

\* The service of main.go:35-36 over an empty repository; the logger is
\* left as constructed.
InitTask ==
    /\ Init
    /\ minLevel = LevelInfo
    /\ capacity = 1

TaskSpec == InitTask /\ [][NextTask]_vars

\* ---- the repository and the Task pointers it exchanges ----
\* The repository's map holds pointers (memory.go:20), and so do its
\* clients; Task objects live at addresses.
Held == got \cup own

Free == {a \in Addrs : heap[a] = NoTask}

Stored == {store[i] : i \in DOMAIN store}

\* The next allocation: an address no object lives at.
Fresh == CHOOSE a \in Free : \A b \in Free : a <= b

\* Objects that neither a client nor the repository points to are gone.
Collect(h, st, keep) ==
    [a \in Addrs |->
        IF a \in keep \cup {st[i] : i \in DOMAIN st} THEN h[a] ELSE NoTask]

\* What a reader of the repository sees.
StoredView == [i \in DOMAIN store |-> heap[store[i]]]

\* domain.NewTask followed by Create (core/service/task.go:46-50,
\* memory.go:34-44): Create stores the pointer it is given, and the client
\* keeps it.
RepoCreateCall(id) ==
    /\ Free # {}
    /\ heap' = [heap EXCEPT ![Fresh] = NewTask(id, <<"a">>)]
    /\ own' = own \cup {Fresh}
    /\ store' = IF id \in DOMAIN store
                THEN store
                ELSE [i \in DOMAIN store \cup {id} |->
                        IF i = id THEN Fresh ELSE store[i]]
    /\ UNCHANGED <<config, chanVars, ctxDone, workerVars, prodVars, closePc,
                   nextId, sink, histVars, lost, srvVars, envVars, fmtVars,
                   taskVars, got>>

\* A GetByID that hands out the stored pointer.
CopyAddrAlias(a, fresh) == a

\* `taskCopy := *task; return &taskCopy` (memory.go:58-60, 74-76): the
\* pointer returned is to a new object.
CopyAddr(a, fresh) == fresh

\* MemoryTaskRepository.GetByID (memory.go:49-61) of a stored task.
RepoGetByIDCall(id) ==
    /\ id \in DOMAIN store
    /\ Free # {}
    /\ LET b == CopyAddr(store[id], Fresh)
       IN  /\ heap' = [heap EXCEPT ![b] = heap[store[id]]]
           /\ got' = got \cup {b}
    /\ UNCHANGED <<config, chanVars, ctxDone, workerVars, prodVars, closePc,
                   nextId, sink, histVars, lost, srvVars, envVars, fmtVars,
                   taskVars, store, own>>

\* The tasks GetAll selects (memory.go:71-72).
Matching(status) ==
    {i \in DOMAIN store : status = "" \/ heap[store[i]].status = status}

\* MemoryTaskRepository.GetAll (memory.go:66-80): one new object per
\* selected task.
RepoGetAllCall(status) ==
    /\ Matching(status) # {}
    /\ Cardinality(Free) >= Cardinality(Matching(status))
    /\ LET f == CHOOSE f \in [Matching(status) -> Free] :
                   \A i, j \in Matching(status) : i # j => f[i] # f[j]
           copy == [i \in Matching(status) |-> CopyAddr(store[i], f[i])]
       IN  /\ heap' = [a \in Addrs |->
                          IF \E i \in Matching(status) : copy[i] = a
                          THEN heap[store[CHOOSE i \in Matching(status) :
                                              copy[i] = a]]
                          ELSE heap[a]]
           /\ got' = got \cup {copy[i] : i \in Matching(status)}
    /\ UNCHANGED <<config, chanVars, ctxDone, workerVars, prodVars, closePc,
                   nextId, sink, histVars, lost, srvVars, envVars, fmtVars,
                   taskVars, store, own>>

\* MemoryTaskRepository.Update (memory.go:84-94) with a pointer the client
\* holds: the map now points to the client's object, which from then on
\* is the stored task and no longer a copy.
RepoUpdateCall(a) ==
    /\ a \in Held
    /\ heap[a].id \in DOMAIN store
    /\ store' = [store EXCEPT ![heap[a].id] = a]
    /\ got' = got \ {a}
    /\ own' = own \cup {a}
    /\ heap' = Collect(heap, store', Held)
    /\ UNCHANGED <<config, chanVars, ctxDone, workerVars, prodVars, closePc,
                   nextId, sink, histVars, lost, srvVars, envVars, fmtVars,
                   taskVars>>

\* A client changes a Task it holds, as Task.UpdateStatus does
\* (domain/task.go:69-72).
Modify(a, status) ==
    /\ a \in Held
    /\ heap[a].status # status
    /\ heap' = [heap EXCEPT ![a] = UpdateStatus(heap[a], status)]
    /\ UNCHANGED <<config, chanVars, ctxDone, workerVars, prodVars, closePc,
                   nextId, sink, histVars, lost, srvVars, envVars, fmtVars,
                   taskVars, store, got, own>>

\* A client lets go of a pointer.
Drop(a) ==
    /\ a \in Held
    /\ got' = got \ {a}
    /\ own' = own \ {a}
    /\ heap' = Collect(heap, store, Held \ {a})
    /\ UNCHANGED <<config, chanVars, ctxDone, workerVars, prodVars, closePc,
                   nextId, sink, histVars, lost, srvVars, envVars, fmtVars,
                   taskVars, store>>

NextRepo ==
    \/ \E id \in TaskIds : RepoCreateCall(id)
    \/ \E id \in TaskIds : RepoGetByIDCall(id)
    \/ \E status \in {"", StatusPending} : RepoGetAllCall(status)
    \/ \E a \in Addrs : RepoUpdateCall(a)
    \/ \E a \in Addrs, status \in StatusArgs : Modify(a, status)
    \/ \E a \in Addrs : Drop(a)

RepoSpec == InitTask /\ [][NextRepo]_vars

\* ---- repeated Start (async.go:71-74) ----
\* Start has no guard: every call adds one to the WaitGroup and launches
\* another worker on the same channel.  Here the owner of the logger may
\* call Start again at any time.
NextRestart ==
    \/ Start
    \/ \E p \in Producers, level \in Levels, done \in BOOLEAN :
          Started # {} /\ closePc # "returned" /\ LogCall(p, level, done)
    \/ \E p \in Producers : ProducerSelect(p)
    \/ \E p \in Producers : ProducerResume(p)
    \/ \E p \in Producers : CancelCaller(p)
    \/ \E w \in Workers : WorkerSelect(w)
    \/ \E w \in Workers : WorkerWrite(w)
    \/ \E w \in Workers : WorkerDrainCheck(w)
    \/ \E w \in Workers : WorkerDrainRecv(w)
    \/ Signal
    \/ (Started # {} /\ CloseChan)
    \/ CloseReturn

SpecRestart == Init /\ [][NextRestart]_vars


\* ======================================================================
\* Properties
\* ======================================================================
RealLines == {i \in 1..Len(sink) : sink[i].id # 0}

AllDone == \A w \in Started : wpc[w] = "done"

\* C1: no accepted entry is lost: every entry the queue accepted (all of
\* them before Close was invoked, later sends panic) is eventually
\* written.  Once Close has returned the worker has exited and nothing is
\* written any more, so by then every accepted entry must be in the sink.
C1_NoAcceptedEntryLost ==
    closePc = "returned" => Range(accepted) \subseteq Ids(sink)

\* C2: the order of the lines in the sink is the order in which the queue
\* accepted their entries: of two written entries, the one written first
\* was accepted first.
C2_SinkOrderIsAcceptanceOrder ==
    \A i, j \in RealLines :
        i < j => \E a, b \in 1..Len(accepted) :
                    /\ a < b
                    /\ accepted[a] = sink[i].id
                    /\ accepted[b] = sink[j].id

\* Two entries written in acceptance order where the later call was
\* accepted, and written, first.
C2_Witness ==
    \E i, j \in RealLines : i < j /\ sink[i].id > sink[j].id

\* C3: Close is a barrier: whenever Close has returned, the worker has
\* terminated and the queue holds no unwritten entry.
C3_CloseIsBarrier ==
    closePc = "returned" => AllDone /\ buf = <<>>

\* C4: once invoked after Start, Close eventually returns, whether or not
\* the Start context is cancelled; and when no entry was ever emitted
\* the sink is empty when it has returned.
C4_CloseReturns ==
    /\ (closePc = "waiting") ~> (closePc = "returned")
    /\ [](closePc = "returned" /\ nextId = 1 => sink = <<>>)

\* C5: an emission below the minimum level leaves no trace: its entry is
\* never in the queue, never held by a producer or the worker, never
\* accepted and never written; every line in the sink is at or above the
\* minimum level.
C5_FilteredLeavesNoTrace ==
    /\ filtered \cap (Ids(buf) \cup Range(accepted) \cup Ids(sink)
                        \cup {pent[p].id : p \in Producers}
                        \cup {held[w].id : w \in Workers}) = {}
    /\ \A i \in 1..Len(sink) : sink[i].level >= minLevel

\* Minimum level WARN, some call was filtered and some line was written.
C5_Witness ==
    /\ minLevel = LevelWarn
    /\ filtered # {}
    /\ RealLines # {}

\* C6: a call whose context is already done when it is made never
\* enqueues its entry: no step of such a call makes the queue accept it.
C6_CancelledCallNeverEnqueues ==
    [][\A p \in Producers :
          ppc[p] = "select" /\ pctx[p]
              => pent[p].id \notin Range(accepted')]_vars

\* C7: no emission call started before Close has returned fails in a
\* caller-visible way: no producer ever panics.
C7_NoCallerVisibleFailure ==
    \A p \in Producers : ppc[p] # "panicked"

\* C8: a full queue never blocks a producer forever: every call that has
\* entered the select eventually returns, as long as Close is not invoked
\* meanwhile, even if its own context is never cancelled.
C8_ProducerNeverBlockedForever ==
    \A p \in Producers :
        (ppc[p] \in {"select", "parked"})
            ~> (ppc[p] = "idle" \/ closePc # "idle")

\* C9: a call parked on a full queue whose context is then cancelled
\* resumes to return (it is not left parked and does not fail), and its
\* entry is abandoned: it is never accepted, never in the queue, never
\* written.
C9_CancelledWaiterAbandons ==
    /\ \A p \in Producers : pent[p].id \in abandoned => ppc[p] = "resumed"
    /\ abandoned \cap (Range(accepted) \cup Ids(buf) \cup Ids(sink)
                         \cup {held[w].id : w \in Workers}) = {}

\* A call was abandoned and has returned while the queue is still full.
C9_Witness ==
    /\ abandoned # {}
    /\ \A p \in Producers : ppc[p] = "idle"
    /\ Len(buf) = capacity

BufIds == [i \in 1..Len(buf) |-> buf[i].id]

\* C10: a full queue is not overwritten: the queue always holds, in order,
\* the most recently accepted entries; while it holds `capacity` entries
\* a step either leaves it as it is or is a dequeue by the worker, which
\* takes the oldest entry and keeps the others in place; and an entry is
\* accepted only when the queue had a free slot or in a step that
\* dequeues.
C10_FullQueueNotOverwritten ==
    /\ [](/\ Len(buf) <= capacity
          /\ Len(buf) <= Len(accepted)
          /\ BufIds = SubSeq(accepted, Len(accepted) - Len(buf) + 1,
                             Len(accepted)))
    /\ [][Len(buf) = capacity =>
            \/ buf' = buf /\ accepted' = accepted
            \/ /\ \E w \in Workers : held'[w] = Head(buf) /\ wpc'[w] # wpc[w]
               /\ Len(buf') \in {Len(buf) - 1, Len(buf)}
               /\ SubSeq(buf', 1, Len(buf) - 1) = Tail(buf)]_vars

\* Capacity 1: the second emission has just been accepted, in the step in
\* which the worker dequeued the first one.
C10_Witness ==
    /\ capacity = 1
    /\ \E p \in Producers :
          /\ ppc[p] = "resumed"
          /\ ~pctx[p]
          /\ Ids(buf) = {pent[p].id}
    /\ \E w \in Workers : held[w].id \in Range(accepted)

\* ---- C11 ----
\* At most one drain worker is active per logger, whatever sequence of
\* Start calls is made, repeated Start calls included.
ActiveWorkers == {w \in Workers : wpc[w] \notin {"none", "done"}}

C11_AtMostOneWorker == Cardinality(ActiveWorkers) <= 1

\* ---- C12 ----
\* Once the context passed to Start is cancelled the worker goes from
\* running to draining to terminated: in the drain it receives only after
\* having seen the queue non-empty, so it never parks on an empty queue,
\* it leaves only when it has seen the queue empty, it never goes back to
\* the running loop, and it terminates.
Draining == {"drain_check", "drain_recv", "drain_write", "drain_parked"}

C12_DrainTerminates ==
    /\ [](\A w \in Workers :
            /\ wpc[w] # "drain_parked"
            /\ wpc[w] \in Draining => ctxDone
            /\ wpc[w] = "drain_recv" => Len(buf) > 0)
    /\ [][\A w \in Workers :
            /\ wpc[w] \in Draining => wpc'[w] \in Draining \cup {"done"}
            /\ wpc[w] = "done" => wpc'[w] = "done"
            /\ (wpc[w] # "done" /\ wpc'[w] = "done") =>
                  (wpc[w] = "drain_check" /\ buf = <<>>)]_vars
    /\ \A w \in Workers :
          (ctxDone /\ wpc[w] # "none") ~> (wpc[w] = "done")

\* The draining worker holds an entry it found buffered after the
\* cancellation.
C12_Witness ==
    /\ ctxDone
    /\ \E w \in Workers :
          /\ wpc[w] = "drain_write"
          /\ held[w].id \in Range(accepted)

\* ---- C13 ----
\* In main's shutdown sequence the logger is closed once and no handler
\* or service call emits through the logger once Close has been invoked,
\* also when server.Shutdown returned on its timeout.
C13_NoEmitAfterClose ==
    [][/\ nextId' # nextId => closePc = "idle"
       /\ closePc # "idle" => closePc' # "idle"]_vars

\* ---- C14 ----
\* What a LOG_BUFFER_SIZE value denotes, read as a decimal numeral.
Unsigned(s) == IF s # <<>> /\ Head(s) \in {"+", "-"} THEN Tail(s) ELSE s

IsInteger(s) ==
    /\ Unsigned(s) # <<>>
    /\ \A i \in 1..Len(Unsigned(s)) : Unsigned(s)[i] \in Digits

RECURSIVE Pow10(_)
Pow10(n) == IF n = 0 THEN 1 ELSE 10 * Pow10(n - 1)

RECURSIVE Magnitude(_)
Magnitude(u) ==
    IF u = <<>> THEN 0
    ELSE DigitVal(Head(u)) * Pow10(Len(u) - 1) + Magnitude(Tail(u))

IntegerValue(s) ==
    IF Head(s) = "-" THEN 0 - Magnitude(Unsigned(s))
                     ELSE Magnitude(Unsigned(s))

PositiveInteger(s) == IsInteger(s) /\ IntegerValue(s) > 0

NoLoggerRan ==
    /\ cfgPc = "panicked"
    /\ capacity = 0
    /\ Started = {}
    /\ nextId = 1
    /\ sink = <<>>

LevelOfName ==
    [DEBUG |-> LevelDebug, INFO |-> LevelInfo, WARN |-> LevelWarn,
     ERROR |-> LevelError]

\* LOG_LEVEL spelled exactly DEBUG, INFO, WARN or ERROR gives that
\* minimum level; any other value, and no value, gives INFO, and the
\* level never makes the start fail: a failed start is due to
\* LOG_BUFFER_SIZE.
C15_LogLevelConfig ==
    /\ cfgPc = "constructed" =>
          minLevel = IF envLogLevel.set /\ envLogLevel.val \in DOMAIN LevelOfName
                     THEN LevelOfName[envLogLevel.val]
                     ELSE LevelInfo
    /\ cfgPc = "panicked" =>
          /\ envBufSize.set
          /\ envBufSize.val # <<>>
          /\ ~PositiveInteger(envBufSize.val)

\* LOG_LEVEL=debug gave an INFO logger, which has dropped a DEBUG call
\* and written an entry.
C15_Witness ==
    /\ envLogLevel = [set |-> TRUE, val |-> "debug"]
    /\ cfgPc = "constructed"
    /\ minLevel = LevelInfo
    /\ filtered # {}
    /\ sink # <<>>

\* ---- C16 ----
KeysOf(attrs) == {attrs[i].Key : i \in 1..Len(attrs)}

LastValue(attrs, k) ==
    LET last == CHOOSE i \in 1..Len(attrs) :
                  /\ attrs[i].Key = k
                  /\ \A j \in 1..Len(attrs) : attrs[j].Key = k => j <= i
    IN  attrs[last].Value

\* For every written entry, whatever its attributes, the object's time,
\* level and message are the entry's own, and its other keys are exactly
\* the attribute keys - also for attributes named time, level or message.
C16_CoreFieldsKept ==
    lineOut.written =>
       /\ lineOut.obj["time"] = FormatRFC3339(entryIn.time)
       /\ lineOut.obj["level"] = LevelString(entryIn.level)
       /\ lineOut.obj["message"] = entryIn.msg
       /\ DOMAIN lineOut.obj =
             {"time", "level", "message"} \cup KeysOf(entryIn.attrs)

\* ---- C17 ----
\* A key that occurs several times in the attribute list is in the
\* written object once, with the value of its last occurrence.
C17_LastDuplicateWins ==
    lineOut.written =>
       \A k \in KeysOf(entryIn.attrs) :
          /\ k \in DOMAIN lineOut.obj
          /\ lineOut.obj[k] = LastValue(entryIn.attrs, k)

\* An entry with the key k twice has been written.
C17_Witness ==
    /\ lineOut.written
    /\ entryIn.attrs = <<[Key |-> "k", Value |-> "v"],
                         [Key |-> "k", Value |-> "w"]>>
    /\ lineOut.obj["k"] = "w"

\* ---- C18 ----
RealIds == SelectSeq([i \in 1..Len(sink) |-> sink[i].id], LAMBDA x : x # 0)

IsPrefix(a, b) == Len(a) <= Len(b) /\ a = SubSeq(b, 1, Len(a))

\* When the serialization or the write of an entry fails, the entry is
\* lost and never written later, the failing step touches no producer,
\* the worker is back at the head of its loop with the WaitGroup as it
\* was, and the lines in the sink stay the accepted entries that did not
\* fail, in acceptance order.
C18_FailureIsSwallowed ==
    /\ [](/\ lost \cap Ids(sink) = {}
          /\ IsPrefix(RealIds, SelectSeq(accepted, LAMBDA x : x \notin lost)))
    /\ [][lost' # lost =>
            /\ sink' = sink
            /\ ppc' = ppc /\ pent' = pent /\ pctx' = pctx
            /\ wg' = wg
            /\ \E w \in Workers :
                  /\ wpc[w] \in {"write", "drain_write"}
                  /\ lost' = lost \cup {held[w].id}
                  /\ wpc'[w] \in {"select", "drain_check"}]_vars

\* The first accepted entry failed and the second one is in the sink.
C18_Witness ==
    /\ Len(accepted) = 2
    /\ lost = {accepted[1]}
    /\ RealIds = <<accepted[2]>>

\* ---- C19 ----
Whitespace == {" "}

IsBlank(title) == \A i \in 1..Len(title) : title[i] \in Whitespace

\* CreateTask with an empty or whitespace-only title returns ErrEmptyTitle
\* and stores nothing; with any other title (and an unused ID) it stores
\* exactly one new task, with status pending.
C19_CreateValidatesTitle ==
    [][(cres' # cres /\ cres'.op = "create") =>
          IF IsBlank(cres'.title)
          THEN cres'.err = ErrEmptyTitle /\ tasks' = tasks
          ELSE cres'.id \notin DOMAIN tasks =>
                  /\ cres'.err = NilError
                  /\ DOMAIN tasks' = DOMAIN tasks \cup {cres'.id}
                  /\ \A i \in DOMAIN tasks : tasks'[i] = tasks[i]
                  /\ tasks'[cres'.id].status = StatusPending]_vars

\* ---- C20 ----
\* GetTaskByID and UpdateTaskStatus return an error matching
\* ErrTaskNotFound and leave the repository as it is when they find no
\* task with the ID, at the read or, the task having been deleted in
\* between, at the write of UpdateTaskStatus.
C20_NotFoundWhenMissing ==
    [][(/\ cres' # cres
        /\ cres'.op \in {"get", "update"}
        /\ cres'.id \notin DOMAIN tasks) =>
          /\ Is(cres'.err, ErrTaskNotFound)
          /\ tasks' = tasks]_vars

\* UpdateTaskStatus has returned the error of an Update that found its
\* task deleted.
C20_Witness ==
    /\ cres.op = "update"
    /\ cres.err = Wrap("failed to update task", ErrTaskNotFound)
    /\ cres.id \notin DOMAIN tasks

\* ---- C21 ----
\* Whenever the service hands a task to the repository's Create: if a
\* task with that ID is stored, the error matches ErrTaskExists and the
\* repository is left as it is; if not, the repository gains exactly that
\* task and keeps every other one.
C21_CreateRejectsDuplicate ==
    [][(cres' # cres /\ cres'.op = "create" /\ cres'.title # <<>>) =>
          IF cres'.id \in DOMAIN tasks
          THEN /\ Is(cres'.err, ErrTaskExists)
               /\ tasks' = tasks
          ELSE /\ cres'.err = NilError
               /\ DOMAIN tasks' = DOMAIN tasks \cup {cres'.id}
               /\ tasks'[cres'.id] = NewTask(cres'.id, cres'.title)
               /\ \A i \in DOMAIN tasks : tasks'[i] = tasks[i]]_vars

\* A Create under a stored ID was refused and the stored task still has
\* its own title.
C21_Witness ==
    /\ cres.op = "create"
    /\ Is(cres.err, ErrTaskExists)
    /\ cres.id \in DOMAIN tasks
    /\ tasks[cres.id].title # cres.title

C24_QueueWithinCapacity ==
    /\ [](Len(buf) \in 0..capacity)
    /\ [][capacity' = capacity /\ minLevel' = minLevel]_vars

\* The queue is full and a producer waits for room.
C24_Witness ==
    /\ Len(buf) = capacity
    /\ sendq # <<>>

\* ---- C25 ----
\* Every line in the sink is the line of an entry the queue accepted, and
\* no entry has two lines: the worker writes nothing that nobody emitted,
\* also once Close has closed the queue.
C25_OnlyAcceptedEntriesWritten ==
    /\ \A i \in 1..Len(sink) : sink[i].id \in Range(accepted)
    /\ \A i, j \in 1..Len(sink) : sink[i].id = sink[j].id => i = j

\* ---- C26 ----
ValidStatuses ==
    {StatusPending, StatusInProgress, StatusCompleted, StatusCancelled}

\* After any sequence of CreateTask and UpdateTaskStatus calls, with any
\* status argument, every stored task has one of the four statuses.
C26_StoredStatusesValid ==
    \A i \in DOMAIN tasks : tasks[i].status \in ValidStatuses

====
